---- MODULE Spec2Model ----
(***************************************************************************)
(* Website Auditor Pro (src/stream_1.py): the "Audit Website" handler of   *)
(* main(), with audit_page, run_pagespeed_insights, get_internal_links and *)
(* the ThreadPoolExecutor fan-out it drives, and the session state it      *)
(* writes.                                                                 *)
(*                                                                         *)
(* Values.  Python's None is the empty sequence and a present value x is   *)
(* <<x>>.  A URL is a record [scheme, netloc, path]; a path is a number:   *)
(* -1 is the empty path (https://a.test), 0 is "/", i > 0 is "/p<i>".  An  *)
(* href has the same shape, with scheme "" or netloc "" where the markup   *)
(* leaves them out.  A parsed document (soup) is the set of the hrefs of   *)
(* its anchors.                                                            *)
(***************************************************************************)
EXTENDS Integers, Sequences, FiniteSets, TLC

\* ---------------------------------------------------------------- bounds
\* Most same-site paths a modelled home page links to.
MaxLinks == 9
\* Number of interpreter hash seeds (set iteration orders) considered.
NumSeeds == 2
\* "Audit Website" clicks in one session of the session specification.
MaxRuns == 3

\* ----------------------------------------------------- program constants
\* st.sidebar.slider("Pages to Crawl (incl. homepage)", 1, 10, 3)
MinPages == 1
MaxPages == 10
\* ThreadPoolExecutor(max_workers=5)
max_workers == 5

None == <<>>
Some(x) == <<x>>

\* ------------------------------------------------------------------ URLs
Url(s, n, p) == [scheme |-> s, netloc |-> n, path |-> p]

EmptyPath == 0 - 1
HomeUrl == Url("https", "a.test", 0)

\* Schemes urllib.parse lists in uses_relative (the ones modelled).
uses_relative == {"http", "https", "ftp"}

\* url_input values typed into the sidebar: with and without a scheme prefix.
UrlInputs == { Url("https", "a.test", 0), Url("", "a.test", 0) }

\* url = url_input if url_input.startswith(('http://','https://'))
\*       else 'https://' + url_input
Normalize(url_input) ==
    IF url_input.scheme \in {"http", "https"}
    THEN url_input
    ELSE Url("https", url_input.netloc, url_input.path)

\* urllib.parse.urljoin(base, url)
urljoin(base, href) ==
    LET scheme == IF href.scheme = "" THEN base.scheme ELSE href.scheme IN
    IF href.scheme = "" /\ href.netloc = "" /\ href.path = EmptyPath
    THEN base
    ELSE IF scheme # base.scheme \/ scheme \notin uses_relative
    THEN href
    ELSE IF href.netloc # ""
    THEN Url(scheme, href.netloc, href.path)
    ELSE IF href.path = EmptyPath
    THEN base
    ELSE Url(scheme, base.netloc, href.path)

\* def get_internal_links(base_url, soup)
\* Variant: the netloc filter left out.
get_internal_links_all(base_url, hrefs) ==
    { urljoin(base_url, h) : h \in hrefs }

get_internal_links(base_url, hrefs) ==
    LET links == { urljoin(base_url, h) : h \in hrefs } IN
    { link \in links : link.netloc = base_url.netloc }


\* ------------------------------------------- set iteration order (list(set))
\* list(internal_links - {url}) walks the set in hash order, and str hashes
\* are salted per interpreter: the order is a function of the set and of the
\* process's hash seed, not of the order the anchors appear in.
SchemeNo(s) == IF s = "https" THEN 0 ELSE IF s = "http" THEN 1 ELSE 2

Key(u) == (u.path + 2) + (MaxLinks + 3) * SchemeNo(u.scheme)

HashOf(u, seed) == (Key(u) * (7 + 4 * seed) + seed) % 31

Before(u, v, seed) ==
    \/ HashOf(u, seed) < HashOf(v, seed)
    \/ HashOf(u, seed) = HashOf(v, seed) /\ Key(u) < Key(v)

\* list(S): the elements of S, each at the place its hash gives it.
ListOf(S, seed) ==
    [i \in 1..Cardinality(S) |->
        CHOOSE u \in S : Cardinality({ v \in S : Before(v, u, seed) }) = i - 1]

\* seq[:k]
Take(seq, k) ==
    IF k <= 0 THEN <<>>
    ELSE IF k >= Len(seq) THEN seq
    ELSE SubSeq(seq, 1, k)

\* links_to_crawl = list(internal_links - {url})[:crawl_pages-1]
\* Variant: the seed URL not removed.
links_to_crawl_keep_seed(internal_links, url, crawl_pages, seed) ==
    Take(ListOf(internal_links, seed), crawl_pages - 1)

\* Variant: [:crawl_pages] in place of [:crawl_pages-1].
links_to_crawl_off_by_one(internal_links, url, crawl_pages, seed) ==
    Take(ListOf(internal_links \ {url}, seed), crawl_pages)

LinksToCrawl(internal_links, url, crawl_pages, seed) ==
    Take(ListOf(internal_links \ {url}, seed), crawl_pages - 1)

\* --------------------------------------------------------------- the web
\* What a GET of a URL can end in: a 2xx answer with well-formed markup, a
\* connection error or timeout, a 4xx/5xx status (raise_for_status), or a
\* 2xx answer whose <meta name="description"> has no content attribute.
Outcomes == {"ok", "neterr", "http_error", "badmeta"}

Link(i) == Url("", "", i)
hSelf == Url("", "", EmptyPath)
hNoSlash == Url("https", "a.test", EmptyPath)
hAbs == Url("https", "a.test", 1)
hHttp == Url("http", "a.test", 1)
hNetloc == Url("", "a.test", 2)
hOther == Url("https", "b.test", 1)
hMail == Url("mailto", "", 1)

\* Home pages with k plain same-site links, a self link and an off-site link.
PrefixPage(k) == { Link(i) : i \in 1..k } \cup {hSelf, hOther}
PrefixPages == { PrefixPage(k) : k \in 0..MaxLinks }

\* Home pages mixing every href shape.
MixedHrefs == {Link(1), hAbs, hHttp, hNetloc, hOther, hMail, hSelf, hNoSlash}
MixedPages == { p \in SUBSET MixedHrefs : Cardinality(p) <= 3 }

\* Every page but the home page links one level deeper.
IsHome(u) == u.netloc = "a.test" /\ u.path \in {EmptyPath, 0}
Content(site, u) ==
    IF IsHome(u) THEN site ELSE { Link(u.path + MaxLinks) }

WebUrls == { Url(s, "a.test", p) : s \in {"http", "https"}, p \in EmptyPath..MaxLinks }

AnyWeb == [u \in WebUrls |-> Outcomes]
UpWeb == [u \in WebUrls |-> {"ok"}]
FlakyWeb ==
    [u \in WebUrls |->
        IF u.path <= 0 THEN {"ok"}
        ELSE IF u.path % 4 = 1 THEN {"ok"}
        ELSE IF u.path % 4 = 2 THEN {"neterr"}
        ELSE IF u.path % 4 = 3 THEN {"http_error"}
        ELSE {"badmeta"}]

OutcomesOf(w, u) == IF u \in DOMAIN w THEN w[u] ELSE {"ok"}

\* ------------------------------------------------------------ audit_page
\* results = {'url': url, 'status_code': None, 'error': None, 'soup': None}
\* as filled in on each path of audit_page that returns.
Fetched(site, u, o) ==
    IF o = "ok"
    THEN [url |-> u, status_code |-> Some(200), error |-> None,
          soup |-> Some(Content(site, u))]
    ELSE IF o = "http_error"
    THEN [url |-> u, status_code |-> Some(404), error |-> Some("HTTPError"),
          soup |-> None]
    ELSE [url |-> u, status_code |-> None, error |-> Some("ConnectionError"),
          soup |-> None]

\* @st.cache_data(ttl=1800) def audit_page(url): every way one call can end,
\* as [result, exception, cache]: a cache hit returns the stored results; a
\* miss (no entry, or one older than the ttl) fetches and stores what it
\* returns; the KeyError of meta_desc['content'] is not a RequestException,
\* so it leaves audit_page and nothing is stored.
audit_page(site, w, cache, u) ==
    LET old == { r \in cache : r.url = u } IN
    { [result |-> Some(r), exception |-> None, cache |-> cache] : r \in old }
    \cup
    { IF o = "badmeta"
      THEN [result |-> None, exception |-> Some("KeyError"), cache |-> cache \ old]
      ELSE [result |-> Some(Fetched(site, u, o)), exception |-> None,
            cache |-> (cache \ old) \cup {Fetched(site, u, o)}]
      : o \in OutcomesOf(w, u) }

\* ------------------------------------------------- run_pagespeed_insights
\* st.secrets.get(...) gives no api key, requests.get or raise_for_status
\* raises a RequestException (network failure, non-2xx), or a report comes.
PsiOutcomes == {"ok", "nokey", "reqerr"}

PsiReturn(u, o) ==
    IF o = "ok"
    THEN [url |-> u, results |-> Some("lighthouseResult"), error |-> None]
    ELSE IF o = "nokey"
    THEN [url |-> u, results |-> None,
          error |-> Some("Google PageSpeed API Key not found.")]
    ELSE [url |-> u, results |-> None, error |-> Some("RequestException")]

\* @st.cache_data(ttl=1800) def run_pagespeed_insights(url), as
\* [value, cache]; the (None, message) returns are cached like the reports.
run_pagespeed_insights(cache, u) ==
    LET old == { r \in cache : r.url = u } IN
    { [value |-> r, cache |-> cache] : r \in old }
    \cup
    { [value |-> PsiReturn(u, o), cache |-> (cache \ old) \cup {PsiReturn(u, o)}]
      : o \in PsiOutcomes }


\* ----------------------------------------------------------------- state
VARIABLES
    site,            \* the hrefs of the anchors on the home page
    web,             \* what each URL's server may answer
    hashseed,        \* the interpreter's hash seed (set iteration order)
    observe,         \* history switch: whether `completed' is recorded
    runs,            \* "Audit Website" clicks still to come in this session
    page_cache,      \* st.cache_data of audit_page: the cached results
    psi_cache,       \* st.cache_data of run_pagespeed_insights
    session_state,   \* st.session_state: audit_ran, main_page_data, psi_results, crawl_data
    pc,              \* where the script run of main() stands
    url,             \* main(): url
    crawl_pages,     \* main(): the slider's value
    main_page_data,  \* main(): None until audit_page(url) has returned
    psi_results,     \* main(): psi_results
    psi_error,       \* main(): psi_error
    crawl_data,      \* main(): None until line 269, then the batch
    internal_links,  \* main(): None until line 272, then the seed's link set
    links_to_crawl,  \* main(): the candidates handed to executor.map
    futures,         \* the executor's futures, in submission order
    completed        \* history: indexes of the futures in the order they finished

vars == << site, web, hashseed, observe, runs, page_cache, psi_cache,
           session_state, pc, url, crawl_pages, main_page_data, psi_results,
           psi_error, crawl_data, internal_links, links_to_crawl, futures,
           completed >>

world == << site, web, hashseed, observe >>
locals == << url, crawl_pages, main_page_data, psi_results, psi_error,
             crawl_data, internal_links, links_to_crawl, futures, completed >>
pool == << internal_links, links_to_crawl, futures, completed >>

EmptySession ==
    [audit_ran |-> FALSE, main_page_data |-> None, psi_results |-> None,
     crawl_data |-> None]

\* A script run that is over: nothing run yet, the report rendered, the
\* st.error + return of line 264, or an exception that left main().
Over == {"idle", "done", "failed", "crashed"}

InitRest ==
    /\ page_cache = {}
    /\ psi_cache = {}
    /\ session_state = EmptySession
    /\ pc = "idle"
    /\ url = HomeUrl
    /\ crawl_pages = MinPages
    /\ main_page_data = None
    /\ psi_results = None
    /\ psi_error = None
    /\ crawl_data = None
    /\ internal_links = None
    /\ links_to_crawl = <<>>
    /\ futures = <<>>
    /\ completed = <<>>

\* One audit of a home page of any shape, any answer from any server.
Init ==
    /\ site \in MixedPages
    /\ web = AnyWeb
    /\ hashseed \in 0..(NumSeeds - 1)
    /\ observe = TRUE
    /\ runs = 1
    /\ InitRest

\* One audit of a home page with 0..MaxLinks same-site links.
PoolInit ==
    /\ site \in PrefixPages
    /\ web \in {UpWeb, FlakyWeb}
    /\ hashseed \in 0..(NumSeeds - 1)
    /\ observe = FALSE
    /\ runs = 1
    /\ InitRest

\* A session of MaxRuns audits of a home page with at most one link.
SessionInit ==
    /\ site \in {PrefixPage(0), PrefixPage(1)}
    /\ web = AnyWeb
    /\ hashseed = 0
    /\ observe = TRUE
    /\ runs = MaxRuns
    /\ InitRest

\* ------------------------------------------------------------------ main
\* if st.sidebar.button("Audit Website"): url = ...   (lines 253-259)
StartAudit ==
    /\ pc \in Over
    /\ runs > 0
    /\ runs' = runs - 1
    /\ \E url_input \in UrlInputs : url' = Normalize(url_input)
    /\ crawl_pages' \in MinPages..MaxPages
    /\ main_page_data' = None
    /\ psi_results' = None
    /\ psi_error' = None
    /\ crawl_data' = None
    /\ internal_links' = None
    /\ links_to_crawl' = <<>>
    /\ futures' = <<>>
    /\ completed' = <<>>
    /\ pc' = "audit_main"
    /\ UNCHANGED << world, page_cache, psi_cache, session_state >>

\* if main_page_data.get('error'): st.error(...); return
\* (error is None or str(e) of a RequestException, which is never empty)
\* Variant: the error of the seed result not looked at.
SeedFailedIgnored(data) == FALSE

SeedFailed(data) == data.error # None

\* main_page_data = audit_page(url)   (lines 262-264)
AuditMain ==
    /\ pc = "audit_main"
    /\ \E ret \in audit_page(site, web, page_cache, url) :
        /\ page_cache' = ret.cache
        /\ IF ret.exception # None
           THEN /\ pc' = "crashed"
                /\ UNCHANGED main_page_data
           ELSE /\ main_page_data' = ret.result
                /\ pc' = IF SeedFailed(ret.result[1]) THEN "failed" ELSE "pagespeed"
    /\ UNCHANGED << world, runs, psi_cache, session_state, url, crawl_pages,
                    psi_results, psi_error, crawl_data, pool >>

\* if psi_error: st.warning(...)   -- and the run goes on
\* Variant: an oracle error ends the run like a seed error.
AfterPageSpeedAbort(error) == IF error # None THEN "failed" ELSE "crawl"

AfterPageSpeed(error) == "crawl"

\* psi_results, psi_error = run_pagespeed_insights(url)   (lines 266-267)
PageSpeed ==
    /\ pc = "pagespeed"
    /\ \E ret \in run_pagespeed_insights(psi_cache, url) :
        /\ psi_cache' = ret.cache
        /\ psi_results' = ret.value.results
        /\ psi_error' = ret.value.error
        /\ pc' = AfterPageSpeed(ret.value.error)
    /\ UNCHANGED << world, runs, page_cache, session_state, url, crawl_pages,
                    main_page_data, crawl_data, pool >>

\* if crawl_pages > 1 and main_page_data.get('soup'):
ShouldCrawl(pages, data) == pages > 1 /\ data.soup # None

NewFuture == [state |-> "PENDING", result |-> None, exception |-> None]

\* crawl_data = [main_page_data]; internal_links = get_internal_links(...);
\* links_to_crawl = ...; executor.map(audit_page, links_to_crawl) submits one
\* future per candidate before it returns   (lines 269-276)
Dispatch ==
    /\ pc = "crawl"
    /\ crawl_data' = Some(<< main_page_data[1] >>)
    /\ IF ShouldCrawl(crawl_pages, main_page_data[1])
       THEN LET links == get_internal_links(url, main_page_data[1].soup[1])
                todo == LinksToCrawl(links, url, crawl_pages, hashseed)
            IN /\ internal_links' = Some(links)
               /\ links_to_crawl' = todo
               /\ futures' = [i \in 1..Len(todo) |-> NewFuture]
               /\ pc' = "pool"
       ELSE /\ pc' = "store"
            /\ UNCHANGED << internal_links, links_to_crawl, futures >>
    /\ UNCHANGED << world, runs, page_cache, psi_cache, session_state, url,
                    crawl_pages, main_page_data, psi_results, psi_error, completed >>

Running(fs) == { i \in 1..Len(fs) : fs[i].state = "RUNNING" }
Pending(fs) == { i \in 1..Len(fs) : fs[i].state = "PENDING" }

\* A pool thread is free to take the next work item.
\* Variant: one thread per work item.
WorkerFreeUnbounded(fs) == TRUE

WorkerFree(fs) == Cardinality(Running(fs)) < max_workers

\* A pool thread takes the oldest pending work item off the queue.
WorkerStart ==
    /\ pc = "pool"
    /\ Pending(futures) # {}
    /\ WorkerFree(futures)
    /\ LET i == CHOOSE j \in Pending(futures) : \A k \in Pending(futures) : j <= k
       IN futures' = [futures EXCEPT ![i].state = "RUNNING"]
    /\ UNCHANGED << world, runs, page_cache, psi_cache, session_state, pc, url,
                    crawl_pages, main_page_data, psi_results, psi_error,
                    crawl_data, internal_links, links_to_crawl, completed >>

\* A pool thread's audit_page(link) ends: the future takes its result or the
\* exception it raised, and the thread goes back for the next item.
WorkerFinish ==
    /\ pc = "pool"
    /\ \E i \in Running(futures) :
        \E ret \in audit_page(site, web, page_cache, links_to_crawl[i]) :
            /\ page_cache' = ret.cache
            /\ futures' = [futures EXCEPT ![i] =
                   [state |-> "FINISHED", result |-> ret.result,
                    exception |-> ret.exception]]
            /\ completed' = IF observe THEN Append(completed, i) ELSE completed
    /\ UNCHANGED << world, runs, psi_cache, session_state, pc, url, crawl_pages,
                    main_page_data, psi_results, psi_error, crawl_data,
                    internal_links, links_to_crawl >>

\* The with block's __exit__ is executor.shutdown(wait=True): every future
\* is finished.
\* Variant: shutdown(wait=False), the block left once the queue is empty.
JoinedEarly(fs) == Pending(fs) = {}

Joined(fs) == \A i \in 1..Len(fs) : fs[i].state = "FINISHED"

\* list(crawl_results): the results of executor.map, one per future, in the
\* order of the futures.
\* Variant: as_completed in place of map.
MapResultsAsCompleted(fs, done) ==
    [k \in 1..Len(done) |-> fs[done[k]].result[1]]

MapResults(fs, done) == [i \in 1..Len(fs) |-> fs[i].result[1]]

\* Some future holds an exception: list() re-raises the first one in order.
Raises(fs) == \E i \in 1..Len(fs) : fs[i].exception # None

\* with ThreadPoolExecutor(max_workers=5) as executor: ... -- leaving the
\* block waits for every future   (lines 275-276)
ExitWith ==
    /\ pc = "pool"
    /\ Joined(futures)
    /\ pc' = "collect"
    /\ UNCHANGED << world, runs, page_cache, psi_cache, session_state, locals >>

\* crawl_data.extend(list(crawl_results))   (line 277)
Extend ==
    /\ pc = "collect"
    /\ IF Raises(futures)
       THEN /\ pc' = "crashed"
            /\ UNCHANGED crawl_data
       ELSE /\ crawl_data' = Some(crawl_data[1] \o MapResults(futures, completed))
            /\ pc' = "store"
    /\ UNCHANGED << world, runs, page_cache, psi_cache, session_state, url,
                    crawl_pages, main_page_data, psi_results, psi_error, pool >>

\* st.session_state.audit_ran = True; .main_page_data = ...; .psi_results =
\* ...; .crawl_data = ...   (lines 279-282)
\* Variant: psi_results not written.
StoredStalePsi(ss, data, psi, crawl) ==
    [audit_ran |-> TRUE, main_page_data |-> data, psi_results |-> ss.psi_results,
     crawl_data |-> crawl]

Stored(ss, data, psi, crawl) ==
    [audit_ran |-> TRUE, main_page_data |-> data, psi_results |-> psi,
     crawl_data |-> crawl]

Store ==
    /\ pc = "store"
    /\ session_state' = Stored(session_state, main_page_data, psi_results, crawl_data)
    /\ pc' = "render"
    /\ UNCHANGED << world, runs, page_cache, psi_cache, locals >>

\* if st.session_state.get('audit_ran'): ... the five tabs   (lines 284-303)
Render ==
    /\ pc = "render"
    /\ session_state.audit_ran
    /\ pc' = "done"
    /\ UNCHANGED << world, runs, page_cache, psi_cache, session_state, locals >>

Next ==
    \/ StartAudit
    \/ AuditMain
    \/ PageSpeed
    \/ Dispatch
    \/ WorkerStart
    \/ WorkerFinish
    \/ ExitWith
    \/ Extend
    \/ Store
    \/ Render

Spec == Init /\ [][Next]_vars
PoolSpec == PoolInit /\ [][Next]_vars
SessionSpec == SessionInit /\ [][Next]_vars

\* requests.get(..., timeout=20) ends every started fetch, the executor's
\* threads take work while there is any, and the script runs on: the run
\* takes a step whenever one is possible.
Fairness == WF_vars(Next)

FairPoolSpec == PoolInit /\ [][Next]_vars /\ Fairness


\* ---------------------------------------------------------------- claims
Min(a, b) == IF a < b THEN a ELSE b

\* The seed page's link set with the seed removed, as the run sees it.
Candidates == get_internal_links(url, site) \ {url}

\* Every future the run dispatched is finished.
AllFinished == \A i \in 1..Len(futures) : futures[i].state = "FINISHED"

\* The batch is built: the run is past line 277 or skipped the crawl.
BatchBuilt == pc \in {"store", "render", "done"}

\* C1: whenever the run holds a crawl batch, the batch has between 1 and
\* crawl_pages entries and its first entry is the seed page's result; with
\* crawl_pages = 1 it has exactly one entry; the stored batch is that batch.
BatchWithinBudget ==
    /\ crawl_data # None =>
        /\ main_page_data # None
        /\ Len(crawl_data[1]) >= 1
        /\ Len(crawl_data[1]) <= crawl_pages
        /\ crawl_data[1][1] = main_page_data[1]
        /\ crawl_data[1][1].url = url
        /\ crawl_pages = 1 => Len(crawl_data[1]) = 1
    /\ pc \in {"render", "done"} => session_state.crawl_data = crawl_data

\* C1 witness: a finished audit with a budget of 1 of a home page with at
\* least three other same-site links.
SingleBudgetManyLinks ==
    /\ pc = "done"
    /\ crawl_pages = 1
    /\ Cardinality(Candidates) >= 3
    /\ Len(crawl_data[1]) = 1

\* C2 as stated: after a failed seed fetch the run holds a one-element batch
\* whose entry is the failed seed result, and nothing was dispatched.
SeedFailureYieldsBatch ==
    pc = "failed" =>
        /\ crawl_data # None
        /\ Len(crawl_data[1]) = 1
        /\ crawl_data[1][1].error # None
        /\ internal_links = None
        /\ futures = <<>>

\* C2 amended: a seed result with an error ends the run at once; the run
\* then holds the seed result with its error and no batch at all, and did no
\* oracle call, no link discovery and no dispatch.
SeedFailureStopsRun ==
    /\ [](pc = "failed" =>
            /\ main_page_data # None
            /\ main_page_data[1].url = url
            /\ main_page_data[1].error # None
            /\ main_page_data[1].soup = None
            /\ psi_results = None
            /\ psi_error = None
            /\ crawl_data = None
            /\ internal_links = None
            /\ links_to_crawl = <<>>
            /\ futures = <<>>)
    /\ [][(pc = "audit_main" /\ main_page_data' # None
             /\ main_page_data'[1].error # None) => pc' = "failed"]_vars

\* C2 witness: a run ended by a 4xx/5xx answer for the seed.
SeedFailedRun ==
    /\ pc = "failed"
    /\ main_page_data[1].status_code = Some(404)

\* C3 as stated: the entries after the seed are in the order the workers
\* finished.
BatchInCompletionOrder ==
    (BatchBuilt /\ Len(completed) = Len(futures)) =>
        \A k \in 1..Len(completed) :
            crawl_data[1][k + 1] = futures[completed[k]].result[1]

\* C3 amended: the entries after the seed are in the order the candidates
\* were submitted, whatever order the workers finished in.
BatchInSubmissionOrder ==
    (BatchBuilt /\ futures # <<>>) =>
        /\ Len(crawl_data[1]) = 1 + Len(links_to_crawl)
        /\ \A i \in 1..Len(links_to_crawl) :
            /\ crawl_data[1][i + 1].url = links_to_crawl[i]
            /\ crawl_data[1][i + 1] = futures[i].result[1]

\* C3 witness: a batch of a run whose second candidate finished first.
FinishedOutOfOrder ==
    /\ BatchBuilt
    /\ Len(completed) >= 2
    /\ completed[1] = 2
    /\ crawl_data[1][2].url = links_to_crawl[1]

\* C4 as stated: once candidates are dispatched the run is never aborted,
\* and when the pool is left the batch gets one result per candidate.
CandidateFailuresStayLocal ==
    futures # <<>> =>
        /\ pc # "crashed"
        /\ BatchBuilt =>
            /\ Len(crawl_data[1]) = 1 + Len(links_to_crawl)
            /\ \A i \in 1..Len(links_to_crawl) :
                crawl_data[1][i + 1].url = links_to_crawl[i]

\* C5: a failed oracle call returns (None, message) and changes nothing
\* else: the run goes on to the crawl with the seed result it had, and the
\* audit it stores holds that seed result and the batch of the seed and of
\* every candidate's result, as many as the budget and the link set allow.
OracleFailureIsLocal ==
    /\ [](psi_error # None =>
            /\ psi_results = None
            /\ pc # "failed"
            /\ main_page_data # None
            /\ main_page_data[1].soup # None
            /\ pc \in {"render", "done"} =>
                /\ session_state.audit_ran
                /\ session_state.psi_results = None
                /\ session_state.main_page_data = main_page_data
                /\ session_state.crawl_data # None
                /\ Len(session_state.crawl_data[1])
                     = 1 + Min(crawl_pages - 1, Cardinality(Candidates))
                /\ session_state.crawl_data[1][1] = main_page_data[1]
                /\ \A i \in 1..Len(futures) :
                     session_state.crawl_data[1][i + 1] = futures[i].result[1])
    /\ [][pc = "pagespeed" =>
            /\ pc' \in {"pagespeed", "crawl"}
            /\ main_page_data' = main_page_data]_vars

\* C5 witness: a rendered audit whose oracle call found no api key and whose
\* batch holds the seed and two more pages.
DegradedAuditRendered ==
    /\ pc = "done"
    /\ psi_error = Some("Google PageSpeed API Key not found.")
    /\ Len(session_state.crawl_data[1]) = 3

\* C6 as stated: every retained link has the base URL's scheme and netloc,
\* and every resolved href that has both is retained.
LinksShareOrigin ==
    internal_links # None =>
        /\ \A l \in internal_links[1] :
            l.scheme = url.scheme /\ l.netloc = url.netloc
        /\ \A h \in site :
            (urljoin(url, h).scheme = url.scheme
               /\ urljoin(url, h).netloc = url.netloc)
            => urljoin(url, h) \in internal_links[1]

\* C6 amended: every retained link is a resolved href of the page with the
\* base URL's netloc (host and port), whatever its scheme, and every
\* resolved href with that netloc is retained.
LinksShareNetloc ==
    internal_links # None =>
        /\ \A l \in internal_links[1] :
            /\ l.netloc = url.netloc
            /\ \E h \in site : urljoin(url, h) = l
        /\ \A h \in site :
            urljoin(url, h).netloc = url.netloc
            => urljoin(url, h) \in internal_links[1]

\* C6 witness: a link set that keeps an http link of an https base URL.
KeepsOtherScheme ==
    /\ internal_links # None
    /\ hOther \in site
    /\ \E l \in internal_links[1] : l.scheme # url.scheme

\* C7: the candidates handed to the pool are pairwise distinct links of the
\* seed page other than the seed, min(crawl_pages - 1, number of such links)
\* of them, one future each; no other URL is ever audited.
CandidatesFromSeedOnly ==
    /\ internal_links # None =>
        /\ internal_links[1] = get_internal_links(url, site)
        /\ Len(links_to_crawl) = Min(crawl_pages - 1, Cardinality(Candidates))
        /\ Len(futures) = Len(links_to_crawl)
        /\ \A i \in 1..Len(links_to_crawl) :
            /\ links_to_crawl[i] \in Candidates
            /\ links_to_crawl[i] # url
            /\ \A j \in 1..Len(links_to_crawl) :
                links_to_crawl[i] = links_to_crawl[j] => i = j
    /\ internal_links = None => links_to_crawl = <<>> /\ futures = <<>>
    /\ \A r \in page_cache :
        \/ r.url = url
        \/ \E i \in 1..Len(links_to_crawl) :
            links_to_crawl[i] = r.url /\ futures[i].state # "PENDING"
    /\ BatchBuilt =>
        \A k \in 2..Len(crawl_data[1]) :
            crawl_data[1][k].url = links_to_crawl[k - 1]

\* C7 witness: a finished audit that took three of more than three
\* candidates, each of which links one level deeper.
BudgetCutsCandidates ==
    /\ pc = "done"
    /\ Len(links_to_crawl) = 3
    /\ Cardinality(Candidates) > 3
    /\ \A k \in 2..4 : crawl_data[1][k].soup # None

\* C8: outside the with block every dispatched future is finished: the
\* batch is extended, stored and rendered only after the last worker ended.
FullBarrierJoin ==
    /\ pc # "pool" => AllFinished
    /\ (crawl_data # None /\ Len(crawl_data[1]) > 1) => AllFinished
    /\ pc = "pool" => (crawl_data # None /\ Len(crawl_data[1]) = 1)

\* C8 witness: the batch of a run with six candidates is extended.
ExtendedAfterJoin ==
    /\ pc = "store"
    /\ Len(futures) = 6
    /\ Len(crawl_data[1]) = 7

\* C9: at most max_workers audits are in flight at any time, and once the
\* candidates are dispatched every one of them is eventually finished.
BoundedPoolFinishes ==
    /\ [](Cardinality(Running(futures)) <= max_workers)
    /\ [](pc = "pool" => <>(pc = "collect" /\ AllFinished))

\* C9 witness: five audits in flight while four more candidates wait.
PoolSaturated ==
    /\ pc = "pool"
    /\ Cardinality(Running(futures)) = max_workers
    /\ Cardinality(Pending(futures)) = 4

\* C10: the stored audit is always that of one successful run: its seed
\* result has no error and a parsed document and heads its batch; after the
\* store the four values are the run's own; and only the store of lines
\* 279-282 changes them, so a run that fails at the seed leaves them alone.
StoredAuditConsistent ==
    /\ [](IF session_state.audit_ran
          THEN /\ session_state.main_page_data # None
               /\ session_state.main_page_data[1].error = None
               /\ session_state.main_page_data[1].soup # None
               /\ session_state.crawl_data # None
               /\ session_state.crawl_data[1][1] = session_state.main_page_data[1]
          ELSE session_state = EmptySession)
    /\ [](pc \in {"render", "done"} =>
            session_state = [audit_ran |-> TRUE,
                             main_page_data |-> main_page_data,
                             psi_results |-> psi_results,
                             crawl_data |-> crawl_data])
    /\ [][pc # "store" => session_state' = session_state]_vars
    /\ [][pc' = "failed" => session_state' = session_state]_vars

\* C10 witness: a later run failed at the seed while the session holds the
\* audit an earlier run stored.
FailedRunKeepsStoredAudit ==
    /\ pc = "failed"
    /\ session_state.audit_ran
    /\ session_state.main_page_data # main_page_data

====
